---- MODULE Spec2Model ----
(***************************************************************************)
(* Ant colony search for a closed tour (src/ACO.py).                       *)
(*                                                                         *)
(* ant_search builds n_ants ants per city, runs cities_count turns and    *)
(* returns the cheapest surviving ant that started at `start`.  A turn is  *)
(* _update_ants (every ant moves or is marked, then the marked ants are    *)
(* removed) followed by _update_pheromones (evaporate, then one deposit    *)
(* per surviving ant).                                                     *)
(*                                                                         *)
(* Numbers are numpy float64 values.  They are modelled exactly as         *)
(* fractions <<n, d>> in lowest terms with d > 0, extended by the three    *)
(* IEEE specials the code produces: <<1, 0>> is +inf, <<-1, 0>> is -inf    *)
(* (np.NINF, the "no edge" sentinel) and <<0, 0>> is nan.  Rounding is not *)
(* modelled.                                                               *)
(***************************************************************************)
EXTENDS Integers, Sequences, FiniteSets

VARIABLES graph, start, n_ants, q, rho, alpha, beta,
          cities_count, ants, phs, i, pc, idx, ants_to_kill, result,
          turn_ants, turn_phs, walked

vars == <<graph, start, n_ants, q, rho, alpha, beta,
          cities_count, ants, phs, i, pc, idx, ants_to_kill, result,
          turn_ants, turn_phs, walked>>

\* turn_ants and turn_phs are history variables: the population and the
\* pheromone matrix as they were when the current turn began; walked is a
\* history variable too: the moves made so far, <<from, to, turn>>
history == <<turn_ants, turn_phs, walked>>

inputs == <<graph, start, n_ants, q, rho, alpha, beta, cities_count>>

(***************************************************************************)
(* Bounds of the explored inputs.                                          *)
(***************************************************************************)
\* largest number of cities
MaxN == 3
\* largest population: n_ants * cities_count
MaxPop == 6
\* largest edge cost
MaxCost == 2

(***************************************************************************)
(* Defaults of ant_search's parameters.                                    *)
(***************************************************************************)
DefaultQ == 100
DefaultBeta == 5

(***************************************************************************)
(* float64 arithmetic.                                                     *)
(***************************************************************************)
NaN  == <<0, 0>>
PINF == <<1, 0>>
NINF == <<-1, 0>>
Zero == <<0, 1>>
One  == <<1, 1>>

Abs(n) == IF n < 0 THEN -n ELSE n

RECURSIVE GCD(_, _)
GCD(a, b) == IF b = 0 THEN a ELSE GCD(b, a % b)

\* the fraction n/d (d > 0) in lowest terms
Rat(n, d) == LET g == GCD(Abs(n), d) IN <<n \div g, d \div g>>

IsFinite(x) == x[2] > 0
Sign(x) == IF x[1] > 0 THEN 1 ELSE IF x[1] < 0 THEN -1 ELSE 0

FAdd(a, b) ==
  IF a = NaN \/ b = NaN THEN NaN
  ELSE IF ~IsFinite(a) /\ ~IsFinite(b) THEN (IF a = b THEN a ELSE NaN)
  ELSE IF ~IsFinite(a) THEN a
  ELSE IF ~IsFinite(b) THEN b
  ELSE Rat(a[1] * b[2] + b[1] * a[2], a[2] * b[2])

FMul(a, b) ==
  IF a = NaN \/ b = NaN THEN NaN
  ELSE IF ~IsFinite(a) \/ ~IsFinite(b) THEN <<Sign(a) * Sign(b), 0>>
  ELSE Rat(a[1] * b[1], a[2] * b[2])

\* numpy true division: x/0 is +-inf (nan for 0/0) with a warning, never an exception
FDiv(a, b) ==
  IF a = NaN \/ b = NaN THEN NaN
  ELSE IF ~IsFinite(a)
       THEN (IF ~IsFinite(b) THEN NaN
             ELSE <<Sign(a) * (IF Sign(b) < 0 THEN -1 ELSE 1), 0>>)
  ELSE IF ~IsFinite(b) THEN Zero
  ELSE IF b[1] = 0 THEN <<Sign(a), 0>>
  ELSE Rat(a[1] * b[2] * Sign(b), a[2] * Abs(b[1]))

RECURSIVE FPow(_, _)
FPow(a, n) == IF n = 0 THEN One ELSE FMul(a, FPow(a, n - 1))

FEq(a, b) == a # NaN /\ b # NaN /\ a = b

FLt(a, b) ==
  /\ a # NaN /\ b # NaN /\ a # b
  /\ IF a = NINF \/ b = PINF THEN TRUE
     ELSE IF a = PINF \/ b = NINF THEN FALSE
     ELSE a[1] * b[2] < b[1] * a[2]

RECURSIVE FSum(_)
FSum(s) == IF s = <<>> THEN Zero ELSE FAdd(Head(s), FSum(Tail(s)))

(***************************************************************************)
(* Explored inputs.  A cost matrix is built row by row: city c has an edge *)
(* to every other city ("all"), only to its successor ("next") or to no    *)
(* city ("none"); the kind of row is chosen for city 0, for city 1 and for *)
(* the later cities together.  An edge c -> d costs `up` when c < d and 1  *)
(* otherwise.  The diagonal holds the sentinel.                            *)
(***************************************************************************)
Cities(n) == 0 .. n - 1

OutKinds == {"all", "next", "none"}

HasEdge(kind, n, c, d) ==
  /\ c # d
  /\ \/ kind = "all"
     \/ kind = "next" /\ d = (c + 1) % n

RowGroup(c) == IF c < 2 THEN c ELSE 2

Matrix(n, out, up) ==
  [e \in Cities(n) \X Cities(n) |->
     IF HasEdge(out[RowGroup(e[1])], n, e[1], e[2])
     THEN (IF e[1] < e[2] THEN <<up, 1>> ELSE One)
     ELSE NINF]

Graphs(n) ==
  {Matrix(n, out, up) : out \in [{RowGroup(c) : c \in Cities(n)} -> OutKinds],
                        up \in 0 .. MaxCost}

\* the symmetric 4-city instance 0-1:1, 0-2:2, 0-3:3, 1-2:4, 1-3:5, 2-3:6
FourCityCost(c, d) ==
  CASE c = 0 -> d
    [] c = 1 -> d + 2
    [] OTHER -> d + 3

FourCityGraph ==
  [e \in Cities(4) \X Cities(4) |->
     IF e[1] = e[2] THEN NINF
     ELSE IF e[1] < e[2] THEN <<FourCityCost(e[1], e[2]), 1>>
     ELSE <<FourCityCost(e[2], e[1]), 1>>]

\* the requested start is the first or the last city
Starts(n) == {0, n - 1}

Alphas == {0, 1}
Rhos == {Rat(1, 2)}

(***************************************************************************)
(* _Ant                                                                    *)
(***************************************************************************)
\* _Ant.__init__; id stands for the object's identity
NewAnt(id, city) == [id |-> id, path |-> <<city>>, cost |-> Zero]

Last(s) == s[Len(s)]

\* _Ant.city, _Ant.start
AntCity(ant) == Last(ant.path)
AntStart(ant) == ant.path[1]

\* a variant of _Ant.go that adds the cost of the opposite edge
GoReversedEdge(ant, next_city, g) ==
  [ant EXCEPT !.cost = FAdd(ant.cost, g[<<next_city, AntCity(ant)>>]),
              !.path = Append(ant.path, next_city)]

\* _Ant.go
Go(ant, next_city, g) ==
  [ant EXCEPT !.cost = FAdd(ant.cost, g[<<AntCity(ant), next_city>>]),
              !.path = Append(ant.path, next_city)]

\* _Ant.__lt__
AntLt(a, b) == FLt(a.cost, b.cost)

\* a variant of _init_ants that makes one ant per city
InitAntsOnePerCity(n, per_city) == [p \in 1 .. n |-> NewAnt(p, p - 1)]

\* _init_ants: n_ants ants per city, city-major
InitAnts(n, per_city) ==
  [p \in 1 .. n * per_city |-> NewAnt(p, (p - 1) \div per_city)]

\* a variant of _init_pheromones that zeroes the whole matrix
InitPheromonesAllZero(g) == [e \in DOMAIN g |-> Zero]

\* _init_pheromones: every entry above -inf becomes 0
InitPheromones(g) ==
  [e \in DOMAIN g |-> IF FLt(NINF, g[e]) THEN Zero ELSE g[e]]

(***************************************************************************)
(* Candidate paths                                                         *)
(***************************************************************************)
Contains(path, city) == \E p \in 1 .. Len(path) : path[p] = city

\* a variant of the standard step that does not skip the visited cities
RECURSIVE RevisitingStepFrom(_, _, _, _)
RevisitingStepFrom(current_path, g, n, from) ==
  IF from >= n THEN <<>>
  ELSE LET weight == g[<<Last(current_path), from>>]
           rest == RevisitingStepFrom(current_path, g, n, from + 1)
       IN IF FEq(weight, NINF)
          THEN rest
          ELSE <<Append(current_path, from)>> \o rest

GetNextPathsStandardStepRevisiting(current_path, g, n) ==
  RevisitingStepFrom(current_path, g, n, 0)

\* _get_next_paths_standard_step: the loop over next_city = from .. n-1
RECURSIVE StandardStepFrom(_, _, _, _)
StandardStepFrom(current_path, g, n, from) ==
  IF from >= n THEN <<>>
  ELSE LET weight == g[<<Last(current_path), from>>]
           rest == StandardStepFrom(current_path, g, n, from + 1)
       IN IF Contains(current_path, from) \/ FEq(weight, NINF)
          THEN rest
          ELSE <<Append(current_path, from)>> \o rest

GetNextPathsStandardStep(current_path, g, n) ==
  StandardStepFrom(current_path, g, n, 0)

\* a variant of the final step that closes the tour at index 1 counted from 1
GetNextPathsFinalStepSecondCity(current_path, g) ==
  LET first_city == current_path[IF Len(current_path) >= 2 THEN 2 ELSE 1]
      cost == g[<<Last(current_path), first_city>>]
  IN IF FEq(cost, NINF) THEN <<>> ELSE <<Append(current_path, first_city)>>

\* _get_next_paths_final_step
GetNextPathsFinalStep(current_path, g) ==
  LET first_city == current_path[1]
      cost == g[<<Last(current_path), first_city>>]
  IN IF FEq(cost, NINF) THEN <<>> ELSE <<Append(current_path, first_city)>>

\* a variant of _get_next_paths that takes the final step one city early
GetNextPathsEarlyClose(current_path, g, n) ==
  IF Len(current_path) = n - 1
  THEN GetNextPathsFinalStep(current_path, g)
  ELSE GetNextPathsStandardStep(current_path, g, n)

\* _get_next_paths
GetNextPaths(current_path, g, n) ==
  IF Len(current_path) = n
  THEN GetNextPathsFinalStep(current_path, g)
  ELSE GetNextPathsStandardStep(current_path, g, n)

(***************************************************************************)
(* Selection weights                                                       *)
(***************************************************************************)
\* a variant of the numerator that leaves the pheromone factor out
GetProbabilityNumeratorVisibilityOnly(path, g, ph, a, b) ==
  IF Len(path) = 2 THEN One
  ELSE LET current_city == path[Len(path) - 1]
           next_city == path[Len(path)]
           visibility == FDiv(One, g[<<current_city, next_city>>])
       IN FPow(visibility, b)

\* a variant of the numerator without the rule for the first move
GetProbabilityNumeratorNoFirstMove(path, g, ph, a, b) ==
  LET current_city == path[Len(path) - 1]
      next_city == path[Len(path)]
      visibility == FDiv(One, g[<<current_city, next_city>>])
  IN FMul(FPow(ph[<<current_city, next_city>>], a), FPow(visibility, b))

\* _get_probability_numerator; path is a candidate path (the move included)
GetProbabilityNumerator(path, g, ph, a, b) ==
  IF Len(path) = 2 THEN One
  ELSE LET current_city == path[Len(path) - 1]
           next_city == path[Len(path)]
           visibility == FDiv(One, g[<<current_city, next_city>>])
       IN FMul(FPow(ph[<<current_city, next_city>>], a), FPow(visibility, b))

Numerators(next_paths, g, ph, a, b) ==
  [p \in 1 .. Len(next_paths) |-> GetProbabilityNumerator(next_paths[p], g, ph, a, b)]

\* the probabilities of _get_next_paths_and_probabilities
Probabilities(next_paths, g, ph, a, b) ==
  LET numerators == Numerators(next_paths, g, ph, a, b)
      denominator == IF numerators # <<>> THEN FSum(numerators) ELSE Zero
  IN IF ~FEq(denominator, Zero)
     THEN [p \in 1 .. Len(numerators) |-> FDiv(numerators[p], denominator)]
     ELSE <<>>

\* random.choices(population, weights, k=1) raises ValueError when the weights
\* do not match the population or their total is not a positive finite number
ChoicesRaises(population, weights) ==
  \/ Len(weights) # Len(population)
  \/ LET total == FSum(weights) IN ~FLt(Zero, total) \/ ~IsFinite(total)

\* the positions random.choices can return: those of positive weight
Selectable(population, weights) ==
  {p \in 1 .. Len(population) : FLt(Zero, weights[p])}

(***************************************************************************)
(* Best ant                                                                *)
(***************************************************************************)
\* insertion of x behind every element that is not greater (stable)
RECURSIVE InsertSorted(_, _)
InsertSorted(x, s) ==
  IF s = <<>> THEN <<x>>
  ELSE IF AntLt(x, Head(s)) THEN <<x>> \o s
  ELSE <<Head(s)>> \o InsertSorted(x, Tail(s))

\* sorted(): stable, compares with __lt__ only
RECURSIVE SortedFrom(_, _)
SortedFrom(s, p) ==
  IF p = 0 THEN <<>> ELSE InsertSorted(s[p], SortedFrom(s, p - 1))

Sorted(s) == SortedFrom(s, Len(s))

\* a variant of the filter of _find_best_ant that keeps every ant
StartAntsUnfiltered(population, s) == population

\* the filter of _find_best_ant
StartAnts(population, s) == SelectSeq(population, LAMBDA ant : AntStart(ant) = s)

\* list.remove: drops the first element that is the given object
RECURSIVE Remove(_, _)
Remove(s, id) ==
  IF s = <<>> THEN <<>>
  ELSE IF Head(s).id = id THEN Tail(s)
  ELSE <<Head(s)>> \o Remove(Tail(s), id)

\* a variant of the second loop of _update_ants that removes nothing
RemoveAllSkipped(s, ids) == s

RECURSIVE RemoveAll(_, _)
RemoveAll(s, ids) ==
  IF ids = <<>> THEN s ELSE RemoveAll(Remove(s, Head(ids)), Tail(ids))

(***************************************************************************)
(* State machine                                                           *)
(***************************************************************************)
NoResult == [kind |-> "none", path |-> <<>>, cost |-> Zero]
Raised(kind) == [kind |-> kind, path |-> <<>>, cost |-> Zero]
Returned(ant) == [kind |-> "return", path |-> ant.path, cost |-> ant.cost]

\* ant_search up to the turn loop
Setup(g, n, s, per_city, a, r) ==
  /\ graph = g
  /\ cities_count = n
  /\ start = s
  /\ n_ants = per_city
  /\ q = <<DefaultQ, 1>>
  /\ rho = r
  /\ alpha = a
  /\ beta = DefaultBeta
  /\ ants = InitAnts(n, per_city)
  /\ phs = InitPheromones(g)
  /\ i = 0
  /\ pc = "update_ants"
  /\ idx = 1
  /\ ants_to_kill = <<>>
  /\ result = NoResult
  /\ turn_ants = ants
  /\ turn_phs = phs
  /\ walked = {}

Init ==
  \E n \in 1 .. MaxN :
    \E g \in Graphs(n), s \in Starts(n), per_city \in 0 .. (MaxPop \div n),
       a \in Alphas, r \in Rhos :
      Setup(g, n, s, per_city, a, r)

\* ant_search(FourCityGraph, start=0, ...)
InitFourCity ==
  \E per_city \in 1 .. (MaxPop \div 4), a \in Alphas, r \in Rhos :
    Setup(FourCityGraph, 4, 0, per_city, a, r)

\* a variant of the scan that removes an ant without candidates at once,
\* while the list is being iterated
UpdateAntRemovingAtOnce ==
  /\ pc = "update_ants"
  /\ idx <= Len(ants)
  /\ LET ant == ants[idx]
         next_paths == GetNextPaths(ant.path, graph, cities_count)
         probabilities == Probabilities(next_paths, graph, phs, alpha, beta)
     IN IF Len(next_paths) = 0
        THEN /\ ants' = Remove(ants, ant.id)
             /\ idx' = idx + 1
             /\ UNCHANGED <<ants_to_kill, pc, result, walked>>
        ELSE IF ChoicesRaises(next_paths, probabilities)
        THEN /\ result' = Raised("ValueError")
             /\ pc' = "done"
             /\ UNCHANGED <<ants, idx, ants_to_kill, walked>>
        ELSE \E p \in Selectable(next_paths, probabilities) :
               /\ ants' = [ants EXCEPT ![idx] = Go(ant, Last(next_paths[p]), graph)]
               /\ idx' = idx + 1
               /\ walked' = walked \cup {<<AntCity(ant), Last(next_paths[p]), i>>}
               /\ UNCHANGED <<pc, result, ants_to_kill>>
  /\ UNCHANGED <<inputs, phs, i, turn_ants, turn_phs>>

\* _update_ant for the ant at position idx, inside the first loop of _update_ants
UpdateAnt ==
  /\ pc = "update_ants"
  /\ idx <= Len(ants)
  /\ LET ant == ants[idx]
         next_paths == GetNextPaths(ant.path, graph, cities_count)
         probabilities == Probabilities(next_paths, graph, phs, alpha, beta)
     IN IF Len(next_paths) = 0
        THEN /\ ants_to_kill' = Append(ants_to_kill, ant.id)
             /\ idx' = idx + 1
             /\ UNCHANGED <<ants, pc, result, walked>>
        ELSE IF ChoicesRaises(next_paths, probabilities)
        THEN /\ result' = Raised("ValueError")
             /\ pc' = "done"
             /\ UNCHANGED <<ants, idx, ants_to_kill, walked>>
        ELSE \E p \in Selectable(next_paths, probabilities) :
               /\ ants' = [ants EXCEPT ![idx] = Go(ant, Last(next_paths[p]), graph)]
               /\ idx' = idx + 1
               /\ walked' = walked \cup {<<AntCity(ant), Last(next_paths[p]), i>>}
               /\ UNCHANGED <<pc, result, ants_to_kill>>
  /\ UNCHANGED <<inputs, phs, i, turn_ants, turn_phs>>

\* the second loop of _update_ants
RemoveDeadAnts ==
  /\ pc = "update_ants"
  /\ idx > Len(ants)
  /\ ants' = RemoveAll(ants, ants_to_kill)
  /\ ants_to_kill' = <<>>
  /\ pc' = "evaporate"
  /\ UNCHANGED <<inputs, phs, i, idx, result, history>>

\* a variant of the evaporation that leaves the matrix as it is
EvaporatedNot(ph, r) == ph

\* a variant of the evaporation that is applied twice
EvaporatedTwice(ph, r) == [e \in DOMAIN ph |-> FMul(FMul(ph[e], r), r)]

\* np.multiply(phs, rho, out=phs)
Evaporated(ph, r) == [e \in DOMAIN ph |-> FMul(ph[e], r)]

\* the first statement of _update_pheromones
Evaporate ==
  /\ pc = "evaporate"
  /\ phs' = Evaporated(phs, rho)
  /\ pc' = "deposit"
  /\ idx' = 1
  /\ UNCHANGED <<inputs, ants, i, ants_to_kill, result, history>>

\* a variant of the deposit that assigns the amount instead of adding it
DepositedOverwriting(ph, ant, amount) ==
  LET len == Len(ant.path)
  IN [ph EXCEPT ![<<ant.path[len - 1], ant.path[len]>>] = FDiv(amount, ant.cost)]

\* the body of the loop of _update_pheromones for one ant
Deposited(ph, ant, amount) ==
  LET len == Len(ant.path)
      prev_city == ant.path[len - 1]
      next_city == ant.path[len]
      delta_phs == FDiv(amount, ant.cost)
  IN [ph EXCEPT ![<<prev_city, next_city>>] = FAdd(@, delta_phs)]

\* one pass of the loop of _update_pheromones
Deposit ==
  /\ pc = "deposit"
  /\ idx <= Len(ants)
  /\ LET ant == ants[idx]
         len == Len(ant.path)
     IN IF len < 2
        THEN /\ result' = Raised("ValueError")
             /\ pc' = "done"
             /\ UNCHANGED <<phs, idx>>
        ELSE /\ phs' = Deposited(phs, ant, q)
             /\ idx' = idx + 1
             /\ UNCHANGED <<pc, result>>
  /\ UNCHANGED <<inputs, ants, i, ants_to_kill, history>>

\* the end of _turn and the step of the loop of ant_search
EndTurn ==
  /\ pc = "deposit"
  /\ idx > Len(ants)
  /\ i' = i + 1
  /\ idx' = 1
  /\ pc' = IF i + 1 < cities_count THEN "update_ants" ELSE "find_best"
  /\ turn_ants' = ants
  /\ turn_phs' = phs
  /\ UNCHANGED <<inputs, ants, phs, ants_to_kill, result, walked>>

\* _find_best_ant and the return of ant_search
FindBestAnt ==
  /\ pc = "find_best"
  /\ LET best_ants == Sorted(StartAnts(ants, start))
     IN result' = IF best_ants = <<>> THEN Raised("IndexError")
                  ELSE Returned(best_ants[1])
  /\ pc' = "done"
  /\ UNCHANGED <<inputs, ants, phs, i, idx, ants_to_kill, history>>

Next ==
  \/ UpdateAnt
  \/ RemoveDeadAnts
  \/ Evaporate
  \/ Deposit
  \/ EndTurn
  \/ FindBestAnt

Spec == Init /\ [][Next]_vars

SpecFourCity == InitFourCity /\ [][Next]_vars

TypeOK ==
  /\ pc \in {"update_ants", "evaporate", "deposit", "find_best", "done"}
  /\ i \in 0 .. cities_count
  /\ \A p \in 1 .. Len(ants) : Len(ants[p].path) >= 1

(***************************************************************************)
(* Properties                                                              *)
(***************************************************************************)
\* the turn loop has run all its turns
Finished == i = cities_count

\* some ant of the population started at `start`
StartAntLives == \E p \in 1 .. Len(ants) : ants[p].path[1] = start

IsClosedTour(path, n) ==
  /\ Len(path) = n + 1
  /\ path[1] = path[n + 1]
  /\ \A c \in Cities(n) : Cardinality({p \in 1 .. n : path[p] = c}) = 1

\* C1: after the cities_count turns every ant still in the population has a
\* path of cities_count + 1 cities that ends where it starts and holds every
\* city exactly once among its first cities_count positions.
C1_SurvivorsHaveClosedTours ==
  Finished => \A p \in 1 .. Len(ants) : IsClosedTour(ants[p].path, cities_count)

C1_Witness ==
  /\ Finished
  /\ cities_count >= 3
  /\ \E p, r \in 1 .. Len(ants) : ants[p].path # ants[r].path

\* C2: when no ant that started at `start` is left after the last turn (of a
\* run with at least two cities and one ant per city), the run ends with
\* InfeasibleTourError and with nothing else.
C2_InfeasibleTourReported ==
  (/\ cities_count >= 2 /\ n_ants >= 1
   /\ pc = "done" /\ Finished /\ ~StartAntLives)
    => result.kind = "InfeasibleTourError"

\* the ant has candidates and their numerators sum to zero
ZeroSumCase(ant) ==
  LET next_paths == GetNextPaths(ant.path, graph, cities_count)
  IN /\ Len(next_paths) > 0
     /\ FEq(FSum(Numerators(next_paths, graph, phs, alpha, beta)), Zero)

\* C3: an ant whose candidates' numerators sum to zero is handled like an ant
\* without candidates: its evaluation marks it for removal, raises nothing and
\* the scan goes on to the next ant.
C3_ZeroSumAntIsRemoved ==
  [][(pc = "update_ants" /\ idx <= Len(ants) /\ ZeroSumCase(ants[idx]))
       => /\ ants_to_kill' = Append(ants_to_kill, ants[idx].id)
          /\ idx' = idx + 1
          /\ pc' = pc
          /\ result' = result]_vars

\* the sum of graph[path[k], path[k+1]] over the consecutive pairs of a path
RECURSIVE PathCostUpTo(_, _, _)
PathCostUpTo(path, g, len) ==
  IF len <= 1 THEN Zero
  ELSE FAdd(PathCostUpTo(path, g, len - 1), g[<<path[len - 1], path[len]>>])

PathCost(path, g) == PathCostUpTo(path, g, Len(path))

\* C4: every live ant's cost is the sum of the costs of the edges of its path,
\* and a returned path starts and ends at `start` and comes with the sum of its
\* edge costs.
C4_CostIsSumOfEdges ==
  /\ \A p \in 1 .. Len(ants) : ants[p].cost = PathCost(ants[p].path, graph)
  /\ result.kind = "return"
       => /\ result.path[1] = start
          /\ Last(result.path) = start
          /\ result.cost = PathCost(result.path, graph)

C4_Witness ==
  /\ result.kind = "return"
  /\ Len(result.path) >= 4
  /\ \E e \in DOMAIN graph : FLt(One, graph[e])
  /\ FLt(Zero, result.cost)

\* C5: when an ant that started at `start` is in the final population, the
\* returned ant is one of those ants and none of them is cheaper; an ant with
\* another start is not returned, cheaper or not.
C5_BestAntIsCheapestFromStart ==
  (pc = "done" /\ Finished /\ StartAntLives)
    => /\ result.kind = "return"
       /\ result.path[1] = start
       /\ \E p \in 1 .. Len(ants) :
            /\ ants[p].path[1] = start
            /\ ants[p].path = result.path
            /\ ants[p].cost = result.cost
       /\ \A r \in 1 .. Len(ants) :
            ants[r].path[1] = start => ~FLt(ants[r].cost, result.cost)

C5_Witness ==
  /\ pc = "done"
  /\ result.kind = "return"
  /\ \E p, r \in 1 .. Len(ants) :
       p # r /\ ants[p].path[1] = start /\ ants[r].path[1] = start
  /\ \E r \in 1 .. Len(ants) :
       ants[r].path[1] # start /\ FLt(ants[r].cost, result.cost)

\* the closed tours over n cities that start at s
Tours(n, s) ==
  {path \in [1 .. n + 1 -> Cities(n)] : path[1] = s /\ IsClosedTour(path, n)}

\* the cost of the cheapest closed tour from s, by enumeration
BruteForceMin(g, n, s) ==
  LET costs == {PathCost(path, g) : path \in Tours(n, s)}
  IN CHOOSE c \in costs : \A d \in costs : ~FLt(d, c)

C7_ConfigurationRejected ==
  (cities_count = 1 \/ n_ants <= 0)
    => /\ i = 0
       /\ idx = 1
       /\ pc \in {"update_ants", "done"}
       /\ phs = InitPheromones(graph)
       /\ pc = "done" => result.kind = "ConfigurationError"

\* C8: a deposit that is due for an ant of cumulative cost zero ends the run
\* in NumericError and changes no pheromone entry.
C8_ZeroCostDepositRaises ==
  [][(pc = "deposit" /\ idx <= Len(ants) /\ FEq(ants[idx].cost, Zero))
       => /\ result'.kind = "NumericError"
          /\ pc' = "done"
          /\ phs' = phs]_vars

\* every edge of the cost matrix has a cost above zero
PositiveCosts == \A e \in DOMAIN graph : graph[e] = NINF \/ FLt(Zero, graph[e])

\* C9: with at least two cities (and edge costs above zero) the run never ends
\* before the turn loop has run its cities_count turns.
C9_LoopRunsAllTurns ==
  (cities_count >= 2 /\ PositiveCosts /\ pc \in {"find_best", "done"})
    => i = cities_count

\* the pheromone update of a turn that began without ants has evaporated
EmptyTurnUpdated == turn_ants = <<>> /\ pc = "deposit"

\* C10 as claimed: a turn that begins with an empty population leaves the
\* population empty and every pheromone entry as it was.
C10_EmptyTurnIsNoOp ==
  EmptyTurnUpdated => (ants = <<>> /\ phs = turn_phs)

\* C10 as amended: a turn that begins with an empty population leaves the
\* population empty, deposits nothing and multiplies every pheromone entry by
\* rho; so an entry that is 0 or the sentinel is as it was.
C10_EmptyTurnOnlyEvaporates ==
  EmptyTurnUpdated
    => /\ ants = <<>>
       /\ \A e \in DOMAIN phs :
            /\ phs[e] = FMul(turn_phs[e], rho)
            /\ turn_phs[e] \in {Zero, NINF} => phs[e] = turn_phs[e]

C10_Witness ==
  /\ EmptyTurnUpdated
  /\ n_ants >= 1
  /\ \E e \in DOMAIN phs : FLt(Zero, turn_phs[e]) /\ FLt(phs[e], turn_phs[e])

\* the identities of the ants of a list, and those marked in the running scan
Ids(s) == {s[p].id : p \in 1 .. Len(s)}
Marked == {ants_to_kill[k] : k \in 1 .. Len(ants_to_kill)}

\* the scan of _update_ants is under way, or was left by an exception
Scanning == pc = "update_ants" \/ (pc = "done" /\ ~Finished)

\* the ant's path is the path of the same ant at the start of the turn plus one city
AdvancedOneEdge(ant) ==
  \E r \in 1 .. Len(turn_ants) :
    /\ turn_ants[r].id = ant.id
    /\ Len(ant.path) = Len(turn_ants[r].path) + 1
    /\ SubSeq(ant.path, 1, Len(ant.path) - 1) = turn_ants[r].path

C11_State ==
  /\ Scanning =>
       \A p \in 1 .. Len(ants) :
         IF p < idx /\ ants[p].id \notin Marked
         THEN Len(ants[p].path) = i + 2 /\ AdvancedOneEdge(ants[p])
         ELSE Len(ants[p].path) = i + 1
  /\ pc \in {"evaporate", "deposit"} =>
       \A p \in 1 .. Len(ants) :
         Len(ants[p].path) = i + 2 /\ AdvancedOneEdge(ants[p])
  /\ (pc = "find_best" \/ (pc = "done" /\ Finished)) =>
       \A p \in 1 .. Len(ants) : Len(ants[p].path) = i + 1

C11_Step ==
  /\ Ids(ants') \subseteq Ids(ants)
  /\ (pc = "update_ants" /\ pc' = "evaporate") => Ids(ants') = Ids(ants) \ Marked

\* C11: in a turn every ant advances by exactly one edge or is removed, so
\* after t turns every ant of the population has a path of t + 1 cities, and
\* an ant that was removed is in no later population.
C11_AdvanceOrRemoved == []C11_State /\ [][C11_Step]_vars

C11_Witness ==
  /\ pc = "update_ants" /\ idx = 1 /\ i = 2
  /\ Len(ants) >= 1
  /\ Len(ants) < n_ants * cities_count
  /\ \A p \in 1 .. Len(ants) : Len(ants[p].path) = 3

\* C12: no city occurs twice in the path of a live ant, except that the last
\* entry equals the first once the path has cities_count + 1 entries.
C12_NoCityTwice ==
  \A p \in 1 .. Len(ants) :
    LET path == ants[p].path
    IN \A a, b \in 1 .. Len(path) :
         (a < b /\ path[a] = path[b])
           => (a = 1 /\ b = Len(path) /\ Len(path) = cities_count + 1)

\* a closed tour whose second city had an edge back to the start
C12_Witness ==
  /\ cities_count = 3
  /\ \E p \in 1 .. Len(ants) :
       /\ Len(ants[p].path) = cities_count + 1
       /\ ants[p].path[1] = ants[p].path[cities_count + 1]
       /\ graph[<<ants[p].path[2], ants[p].path[1]>>] # NINF

C13_State ==
  /\ (pc = "update_ants" /\ i = 0 /\ idx = 1) =>
       \A c \in Cities(cities_count) :
         Cardinality({p \in 1 .. Len(ants) : ants[p].path = <<c>>}) = n_ants
  /\ Cardinality(Ids(ants)) = Len(ants)
  /\ Ids(ants) \subseteq Ids(turn_ants)
  /\ Ids(turn_ants) \subseteq 1 .. cities_count * n_ants
  /\ \A p \in 1 .. Len(ants) : ants[p].path[1] = (ants[p].id - 1) \div n_ants

C13_Step ==
  /\ Len(ants') <= Len(ants)
  /\ \A p \in 1 .. Len(ants') : \E r \in 1 .. Len(ants) : ants[r].id = ants'[p].id

LastEdge(ant) == <<ant.path[Len(ant.path) - 1], ant.path[Len(ant.path)]>>

\* a pheromone value after the deposits of the first k ants of a list on edge e
RECURSIVE WithDeposits(_, _, _, _)
WithDeposits(base, population, k, e) ==
  IF k = 0 THEN base
  ELSE LET before == WithDeposits(base, population, k - 1, e)
       IN IF LastEdge(population[k]) = e
          THEN FAdd(before, FDiv(q, population[k].cost))
          ELSE before

C14_State ==
  /\ pc # "deposit" => phs = turn_phs
  /\ pc = "deposit" =>
       \A e \in DOMAIN phs :
         phs[e] = WithDeposits(FMul(turn_phs[e], rho), ants, idx - 1, e)

C14_Step ==
  /\ phs' # phs => pc \in {"evaporate", "deposit"}
  /\ pc = "evaporate" =>
       /\ pc' = "deposit" /\ idx' = 1
       /\ \A e \in DOMAIN phs : phs'[e] = FMul(phs[e], rho)
  /\ (pc = "deposit" /\ phs' # phs) =>
       \A e \in DOMAIN phs : e # LastEdge(ants[idx]) => phs'[e] = phs[e]

\* C14: in a turn the matrix is evaporated once, and before any deposit of the
\* turn: until the pheromone update the matrix is the one the turn began with,
\* and during the deposits an entry is rho times its value at the start of the
\* turn plus the unscaled deposits made so far; the evaporation is the step
\* that opens the pheromone update, and a deposit changes one entry only.
C14_EvaporationPrecedesDeposits == []C14_State /\ [][C14_Step]_vars

C14_Witness ==
  /\ pc = "deposit"
  /\ idx > 1
  /\ idx <= Len(ants)
  /\ rho # One
  /\ \E p \in 1 .. idx - 1 : FLt(Zero, turn_phs[LastEdge(ants[p])])

\* the pheromone update of the turn has handled every ant
TurnUpdated == pc = "deposit" /\ idx > Len(ants)

\* what the ant at position r of the turn's starting population adds to edge
\* e: q over its cost after the move when it advanced along e, else nothing
Contribution(r, e) ==
  LET old == turn_ants[r]
      now == {p \in 1 .. Len(ants) :
                /\ ants[p].id = old.id
                /\ ants[p].path = Append(old.path, e[2])
                /\ Last(old.path) = e[1]}
  IN IF now = {} THEN Zero ELSE FDiv(q, ants[CHOOSE p \in now : TRUE].cost)

RECURSIVE Contributions(_, _)
Contributions(r, e) ==
  IF r = 0 THEN Zero ELSE FAdd(Contributions(r - 1, e), Contribution(r, e))

\* C15: after the pheromone update of a turn every entry (i, j) is rho times
\* its value at the start of the turn plus, for every ant that advanced along
\* i -> j in the turn, q over that ant's cost after the move; removed ants add
\* nothing and the deposits of several ants on one edge add up.
C15_EntryAfterTurn ==
  TurnUpdated =>
    \A e \in DOMAIN phs :
      phs[e] = FAdd(FMul(turn_phs[e], rho), Contributions(Len(turn_ants), e))

C15_Witness ==
  /\ TurnUpdated
  /\ Len(ants) < Len(turn_ants)
  /\ \E p, r \in 1 .. Len(ants) :
       /\ p # r
       /\ LastEdge(ants[p]) = LastEdge(ants[r])
       /\ FLt(Zero, turn_phs[LastEdge(ants[p])])

\* the candidates of an ant of the turn's starting population and their
\* probabilities, from the matrix the turn began with
SnapshotPaths(r) == GetNextPaths(turn_ants[r].path, graph, cities_count)
SnapshotProbabilities(r) ==
  Probabilities(SnapshotPaths(r), graph, turn_phs, alpha, beta)

C16_State ==
  pc = "update_ants" =>
    /\ phs = turn_phs
    /\ Len(ants) = Len(turn_ants)
    /\ \A p \in 1 .. Len(ants) :
         /\ ants[p].id = turn_ants[p].id
         /\ p >= idx => ants[p] = turn_ants[p]
         /\ p < idx =>
              LET next_paths == SnapshotPaths(p)
                  probabilities == SnapshotProbabilities(p)
              IN IF ants[p].id \in Marked
                 THEN ants[p] = turn_ants[p] /\ next_paths = <<>>
                 ELSE \E c \in 1 .. Len(next_paths) :
                        /\ ants[p].path = next_paths[c]
                        /\ FLt(Zero, probabilities[c])

C16_Step ==
  (pc = "update_ants" /\ pc' = "update_ants") =>
    /\ phs' = phs
    /\ Len(ants') = Len(ants)
    /\ \A p \in 1 .. Len(ants) : p # idx => ants'[p] = ants[p]

\* C16: while the ants of a turn are evaluated the pheromone matrix is the one
\* the turn began with and the list holds the same ants in the same order; an
\* ant not yet evaluated is as it was at the start of the turn, so that its
\* candidates and probabilities will be those of the snapshot, and an
\* evaluated ant took a candidate of positive probability from that snapshot
\* or is marked because the snapshot gave none.  No step of the scan changes
\* the matrix, the length of the list or an ant other than the one evaluated.
C16_DecisionsFromSnapshot == []C16_State /\ [][C16_Step]_vars

C16_Witness ==
  /\ pc = "update_ants"
  /\ i >= 1
  /\ alpha = 1
  /\ idx <= Len(ants)
  /\ \E p \in 1 .. idx - 1 : ants[p].id \in Marked
  /\ \E p \in 1 .. idx - 1 : ants[p].id \notin Marked
  /\ SnapshotPaths(idx) # <<>>

\* the cities other than c that the cost matrix joins to c by an edge from c
Neighbours(c) ==
  {d \in Cities(cities_count) : d # c /\ ~FEq(graph[<<c, d>>], NINF)}

\* the ant at position p has not been evaluated yet in the turn under way
Waiting(p) == pc = "update_ants" /\ p >= idx

\* C17: an ant whose path holds one city has numerator 1 for every candidate,
\* whatever the pheromone and the cost; so in the first turn, with no positive
\* pheromone entry anywhere, an ant waiting at a city with a neighbour has
\* every neighbour as a selectable candidate and the draw does not fail, and
\* an ant already evaluated at such a city has moved to one of them.
C17_FirstMoveIsUniform ==
  /\ \A p \in 1 .. Len(ants) :
       Len(ants[p].path) = 1 =>
         LET next_paths == GetNextPaths(ants[p].path, graph, cities_count)
         IN \A c \in 1 .. Len(next_paths) :
              GetProbabilityNumerator(next_paths[c], graph, phs, alpha, beta) = One
  /\ (i = 0 /\ pc = "update_ants") =>
       /\ \A e \in DOMAIN phs : ~FLt(Zero, phs[e])
       /\ \A p \in 1 .. Len(ants) :
            LET city == AntStart(ants[p])
                next_paths == GetNextPaths(<<city>>, graph, cities_count)
                probabilities == Probabilities(next_paths, graph, phs, alpha, beta)
            IN Neighbours(city) # {} =>
                 /\ {Last(next_paths[c]) : c \in 1 .. Len(next_paths)} = Neighbours(city)
                 /\ ~ChoicesRaises(next_paths, probabilities)
                 /\ Selectable(next_paths, probabilities) = 1 .. Len(next_paths)
                 /\ IF Waiting(p)
                    THEN ants[p].path = <<city>>
                    ELSE /\ ants[p].id \notin Marked
                         /\ Len(ants[p].path) = 2
                         /\ ants[p].path[2] \in Neighbours(city)

\* in the first turn an ant with two neighbours of different cost has moved
\* to the dearer one, under pheromone weighting
C17_Witness ==
  /\ i = 0
  /\ pc = "update_ants"
  /\ alpha = 1
  /\ \E p \in 1 .. idx - 1 :
       /\ p <= Len(ants)
       /\ Len(ants[p].path) = 2
       /\ \E d \in Neighbours(AntStart(ants[p])) :
            FLt(graph[<<AntStart(ants[p]), d>>], graph[LastEdge(ants[p])])

\* some ant walked the directed edge e in a turn before turn t
WalkedBefore(e, t) == \E u \in 0 .. t - 1 : <<e[1], e[2], u>> \in walked

\* C18: with alpha > 0 the entries that are positive when a turn starts are
\* those of the directed edges walked in an earlier turn, and every move made
\* in the second or a later turn follows an edge whose entry was positive
\* when the turn started, hence an edge walked before.
C18_OnlyWalkedEdgesAfterFirstTurn ==
  alpha > 0 =>
    /\ \A e \in DOMAIN turn_phs : FLt(Zero, turn_phs[e]) <=> WalkedBefore(e, i)
    /\ \A w \in walked : w[3] >= 1 => WalkedBefore(w, w[3])
    /\ \A p \in 1 .. Len(ants) :
         (i >= 1 /\ AdvancedOneEdge(ants[p])) =>
           /\ FLt(Zero, turn_phs[LastEdge(ants[p])])
           /\ WalkedBefore(LastEdge(ants[p]), i)

\* after the first turn an ant has moved although another of its candidates
\* was an edge no ant had walked
C18_Witness ==
  /\ alpha > 0
  /\ i >= 1
  /\ pc = "update_ants"
  /\ \E p \in 1 .. idx - 1 :
       /\ p <= Len(ants)
       /\ AdvancedOneEdge(ants[p])
       /\ \E c \in 1 .. Len(SnapshotPaths(p)) :
            /\ SnapshotPaths(p)[c] # ants[p].path
            /\ ~WalkedBefore(LastEdge([path |-> SnapshotPaths(p)[c]]), i)

\* the consecutive pairs of cities of a path
Steps(path) == {<<path[k], path[k + 1]>> : k \in 1 .. Len(path) - 1}

C19_State ==
  PositiveCosts =>
    /\ \A e \in DOMAIN graph :
         IF graph[e] = NINF
         THEN /\ phs[e] = NINF
              /\ \A t \in 0 .. i : <<e[1], e[2], t>> \notin walked
         ELSE IsFinite(phs[e]) /\ ~FLt(phs[e], Zero)
    /\ \A p \in 1 .. Len(ants) :
         \A e \in Steps(ants[p].path) : graph[e] # NINF

\* C19: with q > 0, 0 < rho <= 1 and positive finite edge costs, the entry of
\* an edge is a finite number >= 0, the entry of a non-edge (the diagonal
\* included) is the sentinel and no ant has walked it, every step of every
\* path is an edge, and no step of the program changes the cost matrix.
C19_MatricesKeepShape == []C19_State /\ [][graph' = graph]_vars

\* deposits have been made on a graph that lacks an edge between two cities
C19_Witness ==
  /\ PositiveCosts
  /\ FLt(Zero, q) /\ FLt(Zero, rho) /\ ~FLt(One, rho)
  /\ pc = "deposit"
  /\ idx > 1
  /\ i >= 1
  /\ \E e \in DOMAIN graph : e[1] # e[2] /\ graph[e] = NINF
  /\ \E e \in DOMAIN graph : FLt(Zero, phs[e]) /\ FLt(Zero, turn_phs[e])

====
